---- MODULE Spec2Model ----
(***************************************************************************)
(* Start-up bootstrap of the SuperLuca backend (src/backend/app/main.py):  *)
(* ensure_user_table_schema brings the "user" table up to date, then       *)
(* seed_admin_user creates or reconciles the default admin record.  One or *)
(* more service instances run the start-up hook against one shared store.  *)
(***************************************************************************)
EXTENDS FiniteSets, Integers, Sequences, TLC

(* ---------------------------- bounds ----------------------------------- *)

\* Total number of start-ups (runs of on_startup) over all instances.
MaxRuns == 2

\* The service instances that share the store: the races of the bootstrap
\* (create, alter, insert) are each between two start-ups.
Procs == {1, 2}

(* ---------------------------- data ------------------------------------- *)

\* SQL NULL / Python None in a column value.
NULL == "NULL"

\* os.getenv("ADMIN_RECOVERY_KEY") when the variable is not set.
NoKey == "None"

\* The columns of the User model.
ExpectedColumns ==
    {"id", "username", "email", "password_hash", "recovery_key_hash",
     "role", "is_active", "created_at", "deleted_at"}

\* A column of a store written by a newer release, unknown to this model.
UnknownColumn == "legacy_note"

\* hashlib.sha256(value).hexdigest(): deterministic, injective on the
\* secrets used here, and never equal to its argument.
_hash_secret(value) == "sha256(" \o value \o ")"

\* The values the environment can give to the five ADMIN_* variables.  The
\* first element of each set is the default of the os.getenv call.
Usernames == {"admin", "root"}
Emails == {"admin@example.com", "ops@example.com"}
Passwords == {"ChangeM3!", "S3cret"}
Roles == {"admin", "owner"}
RecoveryKeys == {NoKey, "", "rk1"}

\* Lines 110-114: the defaults of the os.getenv calls.
DefaultCfg ==
    [username |-> "admin", email |-> "admin@example.com",
     password |-> "ChangeM3!", role |-> "admin", recovery_key |-> NoKey]

Overrides(c) == {f \in DOMAIN DefaultCfg : c[f] /= DefaultCfg[f]}

\* The environments of a run: the defaults, or one variable set otherwise.
Configs ==
    {c \in [username : Usernames, email : Emails, password : Passwords,
            role : Roles, recovery_key : RecoveryKeys] :
        Cardinality(Overrides(c)) <= 1}

\* The configuration of a run that has not read its environment yet.
NoCfg ==
    [username |-> "<unread>", email |-> "<unread>", password |-> "<unread>",
     role |-> "<unread>", recovery_key |-> NoKey]

\* Line 116.
PasswordHashOf(c) == _hash_secret(c.password)

\* Line 117: "_hash_secret(recovery_key) if recovery_key else None"; an
\* unset variable and the empty string are both falsy.
RecoveryKeyHashOf(c) ==
    IF c.recovery_key = NoKey \/ c.recovery_key = ""
    THEN NULL
    ELSE _hash_secret(c.recovery_key)

(* ------------------------- starting stores ----------------------------- *)

AllColumns == ExpectedColumns \cup {UnknownColumn}

\* Rows an earlier release (or the application) left in the table, written
\* over every column; a store keeps the part its table has columns for.
SeedAdmin ==
    [id |-> 1, username |-> "admin", email |-> "ops@example.com",
     password_hash |-> _hash_secret("OldPass"),
     recovery_key_hash |-> _hash_secret("rk0"),
     role |-> "admin", is_active |-> TRUE, created_at |-> 0,
     deleted_at |-> NULL, legacy_note |-> "n1"]

SeedAdminDeleted ==
    [SeedAdmin EXCEPT !.is_active = FALSE, !.deleted_at = "2024-01-01"]

SeedAlice ==
    [id |-> 2, username |-> "alice", email |-> "alice@example.com",
     password_hash |-> _hash_secret("alicepw"),
     recovery_key_hash |-> NULL,
     role |-> "user", is_active |-> TRUE, created_at |-> 0,
     deleted_at |-> NULL, legacy_note |-> "n2"]

SeedRowSets ==
    {{}, {SeedAlice}, {SeedAdminDeleted}, {SeedAdmin, SeedAlice}}

\* Column sets of the tables a start-up can meet: current, legacy (older
\* releases lacked deleted_at, and before that recovery_key_hash), and
\* tables carrying a column this release does not know.
SeedColumnSets ==
    {ExpectedColumns,
     ExpectedColumns \ {"deleted_at"},
     ExpectedColumns \ {"deleted_at", "recovery_key_hash"},
     ExpectedColumns \cup {UnknownColumn},
     (ExpectedColumns \ {"deleted_at"}) \cup {UnknownColumn}}

Restrict(r, cols) == [c \in cols |-> r[c]]

(* ---------------------------- state ------------------------------------ *)

VARIABLES
    backend,      \* "sqlite" or "other": DATABASE_URL.startswith("sqlite")
    tableExists,  \* the store has a table named user
    columns,      \* its columns
    rows,         \* its rows, each a function from columns to values
    runs,         \* start-ups so far; also the clock of datetime.utcnow
    pc,           \* each instance's position in on_startup
    cfg,          \* the ADMIN_* values the instance read last
    existing,     \* existing_columns of ensure_user_table_schema
    admin,        \* result of the lookup: {} for None, else {row}
    err,          \* the exception that left on_startup, or NoErr
    failedAt,     \* the step that raised it: "schema", "reconcile" or "none"
    writes,       \* statements the run issued: create, alter, insert, update
    schemaDone,   \* init_db has returned in this run
    looked,       \* the run has queried the admin record
    startStore,   \* the store when the run started
    interf,       \* another instance wrote the store during this run
    prevOK,       \* the instance's previous run ended undisturbed
    sameCfg,      \* the run read the configuration the previous run read
    health        \* the last response of GET /healthz

storeVars == <<backend, tableExists, columns, rows>>
localVars == <<cfg, existing, admin, err, failedAt, writes, schemaDone, looked>>
histVars == <<startStore, interf, prevOK, sameCfg>>
bootVars == <<storeVars, runs, pc, localVars, histVars>>
vars == <<bootVars, health>>

\* No request to /healthz has been answered yet.
NoResponse == [status |-> "none"]

NoErr == "none"
NoWrites == [create |-> 0, alter |-> 0, insert |-> 0, update |-> 0]

Store == [tableExists |-> tableExists, columns |-> columns, rows |-> rows]

Init ==
    /\ backend \in {"sqlite", "other"}
    /\ \/ /\ tableExists = FALSE
          /\ columns = {}
          /\ rows = {}
       \/ /\ tableExists = TRUE
          /\ columns \in SeedColumnSets
          /\ \E rs \in SeedRowSets : rows = {Restrict(r, columns) : r \in rs}
    /\ runs = 0
    /\ pc = [p \in Procs |-> "NotStarted"]
    /\ cfg = [p \in Procs |-> NoCfg]
    /\ existing = [p \in Procs |-> {}]
    /\ admin = [p \in Procs |-> {}]
    /\ err = [p \in Procs |-> NoErr]
    /\ failedAt = [p \in Procs |-> "none"]
    /\ writes = [p \in Procs |-> NoWrites]
    /\ schemaDone = [p \in Procs |-> FALSE]
    /\ looked = [p \in Procs |-> FALSE]
    /\ startStore = [p \in Procs |-> Store]
    /\ interf = [p \in Procs |-> FALSE]
    /\ prevOK = [p \in Procs |-> FALSE]
    /\ sameCfg = [p \in Procs |-> FALSE]
    /\ health = NoResponse

\* A statement of instance q changed the store: every other instance's run
\* is no longer alone on it.
Disturb(q) == [p \in Procs |-> IF p = q THEN interf[p] ELSE TRUE]

Count(p, kind) == [writes EXCEPT ![p][kind] = @ + 1]

\* The step of seed_admin_user a position belongs to: init_db (line 108) or
\* the reconcile of lines 110-146.
StepOf(at) ==
    IF at \in {"create_all", "create_table", "inspect", "alter"}
    THEN "schema"
    ELSE "reconcile"

\* Variant: the exception is caught and the run carries on with the
\* reconcile step.
Raise_swallow(p, e) ==
    /\ pc' = [pc EXCEPT ![p] = "SchemaReady"]
    /\ err' = [err EXCEPT ![p] = e]
    /\ failedAt' = [failedAt EXCEPT ![p] = StepOf(pc[p])]
    /\ existing' = [existing EXCEPT ![p] = {}]
    /\ admin' = [admin EXCEPT ![p] = {}]

\* An exception leaves on_startup: nothing in lines 53-156 catches one.
\* The locals of the function that raised are gone.
Raise(p, e) ==
    /\ pc' = [pc EXCEPT ![p] = "Failed"]
    /\ err' = [err EXCEPT ![p] = e]
    /\ failedAt' = [failedAt EXCEPT ![p] = StepOf(pc[p])]
    /\ existing' = [existing EXCEPT ![p] = {}]
    /\ admin' = [admin EXCEPT ![p] = {}]

(* ------------------------- on_startup ---------------------------------- *)

\* A service process starts, for the first time or again after a run that
\* completed or failed, and runs the hook with fresh locals.
ProcessStarts(p) ==
    /\ pc[p] \in {"NotStarted", "Complete", "Failed"}
    /\ runs < MaxRuns
    /\ runs' = runs + 1
    /\ startStore' = [startStore EXCEPT ![p] = Store]
    /\ prevOK' = [prevOK EXCEPT ![p] =
                    /\ pc[p] /= "NotStarted"
                    /\ ~interf[p]
                    /\ err[p] /= "StoreUnavailable"]
    /\ interf' = [interf EXCEPT ![p] = FALSE]
    /\ sameCfg' = [sameCfg EXCEPT ![p] = FALSE]
    /\ err' = [err EXCEPT ![p] = NoErr]
    /\ failedAt' = [failedAt EXCEPT ![p] = "none"]
    /\ writes' = [writes EXCEPT ![p] = NoWrites]
    /\ schemaDone' = [schemaDone EXCEPT ![p] = FALSE]
    /\ looked' = [looked EXCEPT ![p] = FALSE]
    /\ UNCHANGED <<storeVars, cfg, existing, admin>>

\* Variant: seed_admin_user without the init_db call of line 108.
on_startup_noinit(p) ==
    /\ ProcessStarts(p)
    /\ pc' = [pc EXCEPT ![p] = "SchemaReady"]
    /\ UNCHANGED health

\* The start-up hook calls seed_admin_user, which calls init_db first.
on_startup(p) ==
    /\ ProcessStarts(p)
    /\ pc' = [pc EXCEPT ![p] = "create_all"]
    /\ UNCHANGED health

(* ------------------- ensure_user_table_schema -------------------------- *)

\* Variant: no early return at lines 66-69; every backend is inspected.
AfterCreateAll_always == "inspect"

\* Where the schema step goes once create_all is over (lines 66-71).
AfterCreateAll == IF backend = "sqlite" THEN "inspect" ELSE "SchemaReady"

\* init_db has returned when the run is at the reconcile step.
SchemaReturns(p, at) ==
    schemaDone' = [schemaDone EXCEPT ![p] = (at = "SchemaReady")]

\* Line 64, first half: create_all looks for the table and skips the
\* CREATE when it is there.
create_all_check(p) ==
    /\ pc[p] = "create_all"
    /\ LET at == IF tableExists THEN AfterCreateAll ELSE "create_table"
       IN  /\ pc' = [pc EXCEPT ![p] = at]
           /\ SchemaReturns(p, at)
    /\ UNCHANGED <<storeVars, runs, cfg, existing, admin, err, failedAt,
                   writes, looked, histVars>>
    /\ UNCHANGED health

\* Line 64, second half: CREATE TABLE with the columns of the model.  The
\* store rejects it when another instance created the table meanwhile.
create_all_create(p) ==
    /\ pc[p] = "create_table"
    /\ IF tableExists
       THEN /\ Raise(p, "OperationalError")
            /\ UNCHANGED <<storeVars, writes, schemaDone, interf>>
       ELSE /\ tableExists' = TRUE
            /\ columns' = ExpectedColumns
            /\ rows' = {}
            /\ writes' = Count(p, "create")
            /\ interf' = Disturb(p)
            /\ pc' = [pc EXCEPT ![p] = AfterCreateAll]
            /\ SchemaReturns(p, AfterCreateAll)
            /\ UNCHANGED <<backend, err, failedAt, existing, admin>>
    /\ UNCHANGED <<runs, cfg, looked, startStore, prevOK, sameCfg>>
    /\ UNCHANGED health

\* Lines 71-80: the sqlite_master query and PRAGMA table_info.
inspect(p) ==
    /\ pc[p] = "inspect"
    /\ IF ~tableExists
       THEN /\ pc' = [pc EXCEPT ![p] = "SchemaReady"]
            /\ SchemaReturns(p, "SchemaReady")
            /\ UNCHANGED existing
       ELSE /\ existing' = [existing EXCEPT ![p] = columns]
            /\ pc' = [pc EXCEPT ![p] = "alter"]
            /\ UNCHANGED schemaDone
    /\ UNCHANGED <<storeVars, runs, cfg, admin, err, failedAt, writes,
                   looked, histVars>>
    /\ UNCHANGED health

\* Variant: the migration adds the column under another name than the
\* model's.
MissingColumns_misnamed(existing_columns) ==
    IF "deleted_at" \notin existing_columns THEN {"deleted"} ELSE {}

\* Line 81: the columns the migration adds, given the inspected ones.
MissingColumns(existing_columns) ==
    IF "deleted_at" \notin existing_columns THEN {"deleted_at"} ELSE {}

\* Variant: the table is rebuilt from the model's columns.
AddColumns_rebuild(cols, new) == (cols \cap ExpectedColumns) \cup new

\* ALTER TABLE ... ADD COLUMN: every column stays,
AddColumns(cols, new) == cols \cup new

\* and every row gets NULL in the new one.
AddColumnsToRow(r, new) ==
    [c \in (DOMAIN r) \cup new |-> IF c \in DOMAIN r THEN r[c] ELSE NULL]

\* Lines 81-83.  The store rejects ADD COLUMN for a column the table has.
alter(p) ==
    /\ pc[p] = "alter"
    /\ LET new == MissingColumns(existing[p])
       IN  IF new = {}
           THEN /\ pc' = [pc EXCEPT ![p] = "SchemaReady"]
                /\ SchemaReturns(p, "SchemaReady")
                /\ existing' = [existing EXCEPT ![p] = {}]
                /\ UNCHANGED <<storeVars, admin, err, failedAt, writes, interf>>
           ELSE IF new \cap columns /= {}
           THEN /\ Raise(p, "OperationalError")
                /\ UNCHANGED <<storeVars, writes, schemaDone, interf>>
           ELSE /\ columns' = AddColumns(columns, new)
                /\ rows' = {AddColumnsToRow(r, new) : r \in rows}
                /\ writes' = Count(p, "alter")
                /\ interf' = Disturb(p)
                /\ pc' = [pc EXCEPT ![p] = "SchemaReady"]
                /\ SchemaReturns(p, "SchemaReady")
                /\ existing' = [existing EXCEPT ![p] = {}]
                /\ UNCHANGED <<backend, tableExists, admin, err, failedAt>>
    /\ UNCHANGED <<runs, cfg, looked, startStore, prevOK, sameCfg>>
    /\ UNCHANGED health

(* ------------------------- seed_admin_user ----------------------------- *)

\* Variant: the query has no where clause; first() gives the oldest record.
SelectUser_first(username) ==
    {r \in rows : \A r2 \in rows : r.id <= r2.id}

\* Line 120: select(User).where(User.username == username).first().  The
\* statement names every column of the model.
SelectUser(username) == {r \in rows : r.username = username}

\* Lines 123-130, and the defaults of the model: id from the primary key
\* sequence, created_at from utcnow, deleted_at None.  A column of the
\* table the INSERT does not name is NULL.
NextId ==
    IF rows = {}
    THEN 1
    ELSE 1 + (CHOOSE m \in {r.id : r \in rows} : \A r \in rows : r.id <= m)

\* Variant: the record is built with the plaintext password.
NewAdmin_plaintext(c, cols, newId, now) ==
    [col \in cols |->
        CASE col = "id" -> newId
          [] col = "username" -> c.username
          [] col = "email" -> c.email
          [] col = "password_hash" -> c.password
          [] col = "recovery_key_hash" -> RecoveryKeyHashOf(c)
          [] col = "role" -> c.role
          [] col = "is_active" -> TRUE
          [] col = "created_at" -> now
          [] OTHER -> NULL]

NewAdmin(c, cols, newId, now) ==
    [col \in cols |->
        CASE col = "id" -> newId
          [] col = "username" -> c.username
          [] col = "email" -> c.email
          [] col = "password_hash" -> PasswordHashOf(c)
          [] col = "recovery_key_hash" -> RecoveryKeyHashOf(c)
          [] col = "role" -> c.role
          [] col = "is_active" -> TRUE
          [] col = "created_at" -> now
          [] OTHER -> NULL]

\* Variant: the password digest is reconciled like the email.
ChangedFields_rotate(a, c) ==
    {f \in {"email"} : a.email /= c.email}
    \cup {f \in {"role"} : a.role /= c.role}
    \cup {f \in {"password_hash"} : a.password_hash /= PasswordHashOf(c)}
    \cup {f \in {"recovery_key_hash"} :
            /\ RecoveryKeyHashOf(c) /= NULL
            /\ a.recovery_key_hash /= RecoveryKeyHashOf(c)}

\* Variant: "updated = True" whatever the comparison says, so the email is
\* assigned and an UPDATE issued on every run.
ChangedFields_always(a, c) ==
    {"email"}
    \cup {f \in {"role"} : a.role /= c.role}
    \cup {f \in {"recovery_key_hash"} :
            /\ RecoveryKeyHashOf(c) /= NULL
            /\ a.recovery_key_hash /= RecoveryKeyHashOf(c)}

\* Variant: line 140 without "recovery_key_hash is not None", so a run with
\* no key configured assigns None over a stored digest.
ChangedFields_clear(a, c) ==
    {f \in {"email"} : a.email /= c.email}
    \cup {f \in {"role"} : a.role /= c.role}
    \cup {f \in {"recovery_key_hash"} :
            a.recovery_key_hash /= RecoveryKeyHashOf(c)}

\* Lines 133-142: the attributes of the loaded record the run assigns.
ChangedFields(a, c) ==
    {f \in {"email"} : a.email /= c.email}
    \cup {f \in {"role"} : a.role /= c.role}
    \cup {f \in {"recovery_key_hash"} :
            /\ RecoveryKeyHashOf(c) /= NULL
            /\ a.recovery_key_hash /= RecoveryKeyHashOf(c)}

\* The value an assigned attribute gets.
Assigned(c, f) ==
    CASE f = "email" -> c.email
      [] f = "role" -> c.role
      [] f = "recovery_key_hash" -> RecoveryKeyHashOf(c)
      [] f = "password_hash" -> PasswordHashOf(c)

\* Variant: the UPDATE writes every configured attribute.
UpdateRow_full(r, c, fields) ==
    [col \in DOMAIN r |->
        IF col \in {"email", "role", "recovery_key_hash", "password_hash"}
        THEN Assigned(c, col)
        ELSE r[col]]

\* Variant: the UPDATE also revives the record.
UpdateRow_revive(r, c, fields) ==
    [col \in DOMAIN r |->
        IF col \in fields THEN Assigned(c, col)
        ELSE IF col = "is_active" THEN TRUE
        ELSE IF col = "deleted_at" THEN NULL
        ELSE r[col]]

\* UPDATE "user" SET <assigned attributes> WHERE id = <primary key>.
UpdateRow(r, c, fields) ==
    [col \in DOMAIN r |-> IF col \in fields THEN Assigned(c, col) ELSE r[col]]

\* Lines 110-120: read the environment, hash the secrets, query the record.
\* The query fails when the table lacks a column of the model.
lookup(p) ==
    /\ pc[p] = "SchemaReady"
    /\ \E c \in Configs :
        /\ cfg' = [cfg EXCEPT ![p] = c]
        /\ sameCfg' = [sameCfg EXCEPT ![p] = (c = cfg[p])]
        /\ looked' = [looked EXCEPT ![p] = TRUE]
        /\ IF ExpectedColumns \subseteq columns
           THEN /\ admin' = [admin EXCEPT ![p] = SelectUser(c.username)]
                /\ pc' = [pc EXCEPT ![p] = "write"]
                /\ UNCHANGED <<err, failedAt, existing>>
           ELSE Raise(p, "OperationalError")
    /\ UNCHANGED <<storeVars, runs, writes, schemaDone, startStore, interf,
                   prevOK>>
    /\ UNCHANGED health

\* Variant: the username column carries no unique index.
UniqueViolation_none(username) == FALSE

\* Line 37: username is declared unique, so the table create_all made has
\* a unique index and the store rejects a second record of a name.
UniqueViolation(username) == \E r \in rows : r.username = username

\* Lines 122-131 and 146: the record was absent; INSERT and commit.  The
\* unique index on username rejects a second record of that name.
insert(p) ==
    /\ pc[p] = "write"
    /\ admin[p] = {}
    /\ IF UniqueViolation(cfg[p].username)
       THEN /\ Raise(p, "IntegrityError")
            /\ UNCHANGED <<storeVars, writes, interf>>
       ELSE /\ rows' = rows \cup {NewAdmin(cfg[p], columns, NextId, runs)}
            /\ writes' = Count(p, "insert")
            /\ interf' = Disturb(p)
            /\ pc' = [pc EXCEPT ![p] = "RecordReady"]
            /\ UNCHANGED <<backend, tableExists, columns, err, failedAt,
                           existing, admin>>
    /\ UNCHANGED <<runs, cfg, schemaDone, looked, startStore, prevOK, sameCfg>>
    /\ UNCHANGED health

\* Lines 132-146: the record was found; UPDATE the assigned attributes, if
\* any, and commit.
update(p) ==
    /\ pc[p] = "write"
    /\ admin[p] /= {}
    /\ \E a \in admin[p] :
        LET fields == ChangedFields(a, cfg[p])
        IN  IF fields = {}
            THEN UNCHANGED <<storeVars, writes, interf>>
            ELSE /\ rows' = {IF r.id = a.id THEN UpdateRow(r, cfg[p], fields)
                                            ELSE r : r \in rows}
                 /\ writes' = Count(p, "update")
                 /\ interf' = Disturb(p)
                 /\ UNCHANGED <<backend, tableExists, columns>>
    /\ pc' = [pc EXCEPT ![p] = "RecordReady"]
    /\ admin' = [admin EXCEPT ![p] = {}]
    /\ UNCHANGED <<runs, cfg, existing, err, failedAt, schemaDone, looked,
                   startStore, prevOK, sameCfg>>
    /\ UNCHANGED health

\* Lines 146 and 156: seed_admin_user and the start-up hook return.
complete(p) ==
    /\ pc[p] = "RecordReady"
    /\ pc' = [pc EXCEPT ![p] = "Complete"]
    /\ UNCHANGED <<storeVars, runs, localVars, histVars>>
    /\ UNCHANGED health

\* The store cannot be reached (connection, permission, timeout) at a
\* statement of lines 64, 71-83, 120 or 146.
StoreUnavailable(p) ==
    /\ pc[p] \in {"create_all", "create_table", "inspect", "alter",
                  "SchemaReady", "write"}
    /\ Raise(p, "StoreUnavailable")
    /\ UNCHANGED <<storeVars, runs, cfg, writes, schemaDone, looked, histVars>>
    /\ UNCHANGED health

(* --------------------------- read_health ------------------------------- *)

\* Variant: a readiness probe, "ok" only once a bootstrap has completed.
read_health_ready ==
    /\ health' = IF \E p \in Procs : pc[p] = "Complete"
                 THEN [status |-> "ok"]
                 ELSE [status |-> "starting"]
    /\ UNCHANGED bootVars

\* Lines 159-163: the handler returns the literal payload; it takes no
\* session and reads nothing of the module.
read_health ==
    /\ health' = [status |-> "ok"]
    /\ UNCHANGED bootVars

Next ==
    \/ \E p \in Procs :
        \/ on_startup(p)
        \/ create_all_check(p)
        \/ create_all_create(p)
        \/ inspect(p)
        \/ alter(p)
        \/ lookup(p)
        \/ insert(p)
        \/ update(p)
        \/ complete(p)
        \/ StoreUnavailable(p)
    \/ read_health

Spec == Init /\ [][Next]_vars

TypeOK ==
    /\ backend \in {"sqlite", "other"}
    /\ health \in {NoResponse, [status |-> "ok"]}
    /\ tableExists \in BOOLEAN
    /\ columns \subseteq AllColumns
    /\ \A r \in rows : DOMAIN r = columns
    /\ runs \in 0..MaxRuns
    /\ \A p \in Procs : Cardinality(admin[p]) <= 1

(* ----------------------------- claims ---------------------------------- *)

\* No other instance has written the store since the run of p started.
Alone(p) == ~interf[p]

\* C1 (idempotence): when an instance runs the bootstrap again with the
\* configuration of its previous run, that run having ended without the
\* store being unreachable and no other instance having written meanwhile,
\* the second run issues no CREATE, ALTER, INSERT or UPDATE and the table,
\* its columns and every record are as the first run left them.
C1_Idempotence ==
    \A p \in Procs :
        (/\ prevOK[p]
         /\ Alone(p)
         /\ (~looked[p] \/ sameCfg[p]))
        => /\ writes[p] = NoWrites
           /\ Store = startStore[p]

\* A second run with the first run's configuration has completed, on a
\* store whose admin record the first run inserted.
C1_Witness ==
    \E p \in Procs :
        /\ prevOK[p]
        /\ Alone(p)
        /\ pc[p] = "Complete"
        /\ sameCfg[p]
        /\ \E r \in rows : r.username = cfg[p].username /\ r.created_at > 0

\* C2 (additivity), as claimed: on the SQLite backend, when the schema step
\* of a run that met a legacy table (columns a subset of the model's) has
\* returned, the table has every column of the model, and every row it had
\* keeps its values and is NULL in the added columns.
C2_AdditivityClaim ==
    \A p \in Procs :
        (/\ backend = "sqlite"
         /\ pc[p] = "SchemaReady"
         /\ Alone(p)
         /\ startStore[p].tableExists
         /\ startStore[p].columns \subseteq ExpectedColumns)
        => /\ columns = ExpectedColumns
           /\ \A r0 \in startStore[p].rows :
                \E r \in rows :
                    /\ \A c \in DOMAIN r0 : r[c] = r0[c]
                    /\ \A c \in (DOMAIN r) \ (DOMAIN r0) : r[c] = NULL

\* C3 (fresh-store creation): a run that started on a store without a user
\* table, was alone on it and completed leaves the table with exactly the
\* columns of the model and exactly one record: the configured username,
\* email and role, is_active true, password_hash the digest of the
\* configured password, and recovery_key_hash the digest of the recovery
\* key when a non-empty one is configured, NULL otherwise.
C3_FreshStoreCreation ==
    \A p \in Procs :
        (/\ pc[p] = "Complete"
         /\ Alone(p)
         /\ ~startStore[p].tableExists)
        => /\ tableExists
           /\ columns = ExpectedColumns
           /\ Cardinality(rows) = 1
           /\ \A r \in rows :
                /\ r.username = cfg[p].username
                /\ r.email = cfg[p].email
                /\ r.role = cfg[p].role
                /\ r.is_active = TRUE
                /\ r.password_hash = _hash_secret(cfg[p].password)
                /\ r.recovery_key_hash =
                      IF cfg[p].recovery_key \in {NoKey, ""}
                      THEN NULL
                      ELSE _hash_secret(cfg[p].recovery_key)
                /\ r.deleted_at = NULL

\* A run with a recovery key configured has completed alone on a store
\* that had no table.
C3_Witness ==
    \E p \in Procs :
        /\ pc[p] = "Complete"
        /\ Alone(p)
        /\ ~startStore[p].tableExists
        /\ cfg[p].recovery_key = "rk1"
        /\ writes[p].create = 1
        /\ writes[p].insert = 1

\* C4 (insert race recovered), as claimed: no run ends in failure because
\* its INSERT of the admin record hit the uniqueness violation.
C4_InsertRaceRecovered ==
    \A p \in Procs : ~(pc[p] = "Failed" /\ err[p] = "IntegrityError")

\* C5 (non-destructive): no step removes the table, removes a column or
\* removes a record, and a column the model does not know keeps its value
\* in every record.
C5_NonDestructive ==
    [][/\ tableExists => tableExists'
       /\ columns \subseteq columns'
       /\ \A r \in rows :
            \E r2 \in rows' :
                /\ r2.id = r.id
                /\ r2.username = r.username
                /\ UnknownColumn \in DOMAIN r =>
                      /\ UnknownColumn \in DOMAIN r2
                      /\ r2[UnknownColumn] = r[UnknownColumn]]_vars

\* A run has migrated a table that carries an unknown column and updated
\* the admin record in it.
C5_Witness ==
    \E p \in Procs :
        /\ pc[p] = "Complete"
        /\ UnknownColumn \in columns
        /\ writes[p].alter = 1
        /\ writes[p].update = 1

\* C6 (drift correction): a run that found the admin record, was alone on
\* the store and completed leaves that record with the configured email and
\* role; its recovery_key_hash is kept unless a different non-empty key is
\* configured; every other column, password_hash and created_at among them,
\* has the value it had when the run started.
C6_DriftCorrection ==
    \A p \in Procs :
        (pc[p] = "Complete" /\ Alone(p)) =>
            \A a \in startStore[p].rows :
                a.username = cfg[p].username =>
                    \E r \in rows :
                        /\ r.id = a.id
                        /\ r.email = cfg[p].email
                        /\ r.role = cfg[p].role
                        /\ RecoveryKeyHashOf(cfg[p]) \in {NULL, a.recovery_key_hash}
                              => r.recovery_key_hash = a.recovery_key_hash
                        /\ \A c \in (DOMAIN a) \ {"email", "role", "recovery_key_hash"} :
                              r[c] = a[c]

\* A run has corrected a stale email on a record whose password digest is
\* not the digest of the configured password.
C6_Witness ==
    \E p \in Procs :
        /\ pc[p] = "Complete"
        /\ Alone(p)
        /\ writes[p].update = 1
        /\ \E a \in startStore[p].rows :
              /\ a.username = cfg[p].username
              /\ a.email /= cfg[p].email
              /\ a.password_hash /= _hash_secret(cfg[p].password)

\* C7 (secret digest is create-once): no step changes the password_hash of
\* a record that exists.
C7_PasswordCreateOnce ==
    [][\A r \in rows : \A r2 \in rows' :
          r2.id = r.id => r2.password_hash = r.password_hash]_vars

\* A run configured with another password than the stored digest's has
\* updated the admin record.
C7_Witness ==
    \E p \in Procs :
        /\ pc[p] = "Complete"
        /\ writes[p].update = 1
        /\ \E a \in startStore[p].rows :
              /\ a.username = cfg[p].username
              /\ a.password_hash /= _hash_secret(cfg[p].password)
              /\ \E r \in rows : r.id = a.id /\ r /= a

\* The live records that carry a role the bootstrap gives its admin: active
\* and not soft-deleted.
Privileged ==
    {r \in rows : r.role \in Roles /\ r.is_active /\ r.deleted_at = NULL}

\* C8 (exactly one privileged record), as claimed: when a run has completed
\* alone on the store, whatever runs came before it and whatever identifier
\* they were configured with, exactly one privileged record exists and it
\* carries the configured email and role.
C8_ExactlyOnePrivileged ==
    \A p \in Procs :
        (pc[p] = "Complete" /\ Alone(p)) =>
            /\ Cardinality(Privileged) = 1
            /\ \A r \in Privileged :
                  r.email = cfg[p].email /\ r.role = cfg[p].role

\* The state of the orchestrator a position of the code belongs to.
PhaseOf(at) ==
    CASE at \in {"NotStarted", "create_all", "create_table", "inspect", "alter"}
            -> "NotStarted"
      [] at \in {"SchemaReady", "write"} -> "SchemaReady"
      [] OTHER -> at

PhaseSteps ==
    {<<"NotStarted", "SchemaReady">>, <<"SchemaReady", "RecordReady">>,
     <<"RecordReady", "Complete">>,
     <<"NotStarted", "Failed">>, <<"SchemaReady", "Failed">>,
     <<"RecordReady", "Failed">>,
     <<"Complete", "NotStarted">>, <<"Failed", "NotStarted">>}

\* C9 (bootstrap ordering): a run moves only NotStarted -> SchemaReady ->
\* RecordReady -> Complete, or to Failed, and only a new start-up leaves
\* Complete or Failed; the admin record is queried or written only after
\* the schema step of the same run has returned.
C9_BootstrapOrdering ==
    /\ [][\A p \in Procs :
            \/ PhaseOf(pc'[p]) = PhaseOf(pc[p])
            \/ <<PhaseOf(pc[p]), PhaseOf(pc'[p])>> \in PhaseSteps]_vars
    /\ [](\A p \in Procs :
            (looked[p] \/ writes[p].insert > 0 \/ writes[p].update > 0)
                => schemaDone[p])

\* A run has gone through every step: migrated the table, then inserted
\* the admin record, then completed.
C9_Witness ==
    \E p \in Procs :
        /\ pc[p] = "Complete"
        /\ writes[p].alter = 1
        /\ writes[p].insert = 1

\* C10 (failure halts the sequence): a run whose schema step raised is in
\* Failed with the error surfaced, has not queried the admin record and has
\* inserted or updated nothing; a run whose reconcile step raised is in
\* Failed; and a run in Failed stays there until the next start-up.
C10_FailureHalts ==
    /\ [](\A p \in Procs :
            failedAt[p] = "schema" =>
                /\ pc[p] = "Failed"
                /\ err[p] /= NoErr
                /\ ~looked[p]
                /\ writes[p].insert = 0
                /\ writes[p].update = 0)
    /\ [](\A p \in Procs :
            failedAt[p] = "reconcile" =>
                pc[p] = "Failed" /\ err[p] /= NoErr)
    /\ [][\A p \in Procs :
            (pc[p] = "Failed" /\ runs' = runs) => pc'[p] = "Failed"]_vars

\* The store rejected the ALTER of a run, which ended in Failed.
C10_Witness ==
    \E p \in Procs :
        /\ pc[p] = "Failed"
        /\ failedAt[p] = "schema"
        /\ err[p] = "OperationalError"
        /\ startStore[p].tableExists

\* C11 (live schema contained in the table schema), as claimed: once the
\* schema step of a run has returned, every column of the user table is a
\* column of the model.
C11_LiveWithinExpected ==
    \A p \in Procs : schemaDone[p] => columns \subseteq ExpectedColumns

\* C11, amended: once the schema step of a run has returned, every column
\* of the user table is a column of the model or a column the table had
\* when the run started.
C11_LiveWithinExpectedOrKept ==
    \A p \in Procs :
        schemaDone[p] =>
            columns \subseteq (ExpectedColumns \cup startStore[p].columns)

\* The schema step has migrated a table that carries a column the model
\* does not know, and returned.
C11_Witness ==
    \E p \in Procs :
        /\ schemaDone[p]
        /\ writes[p].alter = 1
        /\ UnknownColumn \in startStore[p].columns
        /\ UnknownColumn \in columns

\* C12 (health probe independence): in every state a request to /healthz
\* can be answered, every response is the payload {status: ok}, and the
\* step that answers changes nothing of the store or of any bootstrap.
C12_HealthIndependent ==
    /\ [](ENABLED read_health)
    /\ [](health \in {NoResponse, [status |-> "ok"]})
    /\ [][health' /= health => UNCHANGED bootVars]_vars

\* The probe has answered ok although no bootstrap ever completed: each
\* instance ran once and failed.
C12_Witness ==
    /\ health = [status |-> "ok"]
    /\ runs = 2
    /\ \A p \in Procs : pc[p] = "Failed"

\* C13 (uniqueness under interleaving): in every reachable state no two
\* user records have the same username.
C13_UniqueUsername ==
    \A r1, r2 \in rows : r1.username = r2.username => r1 = r2

\* A run found no record of its username, another run inserted one first,
\* and the INSERT of the first was rejected: one record of the name exists.
C13_Witness ==
    \E p \in Procs :
        /\ pc[p] = "Failed"
        /\ err[p] = "IntegrityError"
        /\ Cardinality(SelectUser(cfg[p].username)) = 1

\* C14 (schema inspect-then-alter is one atomic unit), as claimed: no two
\* instances are both between their column inspection and their column
\* addition having both observed deleted_at missing, so no two of them
\* issue ADD COLUMN deleted_at.
C14_InspectAlterAtomic ==
    \A p, q \in Procs :
        (/\ p /= q
         /\ pc[p] = "alter"
         /\ pc[q] = "alter")
        => ("deleted_at" \in existing[p] \/ "deleted_at" \in existing[q])

\* C15 (recovery digest reconcile): a run that found the admin record, was
\* alone on the store and completed leaves the stored recovery_key_hash as
\* it was when no recovery key (unset or empty) is configured, leaves it
\* equal to the digest of the configured key otherwise, and issues no
\* UPDATE when that digest, the email and the role all equal the stored
\* values.
C15_RecoveryDigest ==
    \A p \in Procs :
        (pc[p] = "Complete" /\ Alone(p)) =>
            \A a \in startStore[p].rows :
                a.username = cfg[p].username =>
                    \E r \in rows :
                        LET key == cfg[p].recovery_key
                            configured == key \notin {NoKey, ""}
                        IN  /\ r.id = a.id
                            /\ ~configured =>
                                 r.recovery_key_hash = a.recovery_key_hash
                            /\ configured =>
                                 r.recovery_key_hash = _hash_secret(key)
                            /\ (/\ configured
                                /\ a.recovery_key_hash = _hash_secret(key)
                                /\ a.email = cfg[p].email
                                /\ a.role = cfg[p].role)
                               => writes[p].update = 0

\* After a run that stored the digest of the configured key, a run with the
\* same key has completed alone and written nothing.
C15_Witness ==
    \E p \in Procs :
        /\ pc[p] = "Complete"
        /\ Alone(p)
        /\ cfg[p].recovery_key = "rk1"
        /\ writes[p].update = 0
        /\ \E a \in startStore[p].rows :
              /\ a.username = cfg[p].username
              /\ a.recovery_key_hash = _hash_secret("rk1")

\* C16 (backend special-casing): only on the SQLite backend does a run
\* inspect the table or issue an ALTER; on any other backend a run that
\* started on an existing table finds the table's column set as it was at
\* the start, whatever step the run is at.
C16_BackendSpecialCase ==
    \A p \in Procs :
        /\ pc[p] \in {"inspect", "alter"} => backend = "sqlite"
        /\ writes[p].alter > 0 => backend = "sqlite"
        /\ (/\ backend /= "sqlite"
            /\ pc[p] /= "NotStarted"
            /\ startStore[p].tableExists)
           => /\ writes[p].create = 0
              /\ columns = startStore[p].columns

\* On another backend a run on a legacy table has passed the schema step and
\* run the admin lookup against the table still without deleted_at.
C16_Witness ==
    \E p \in Procs :
        /\ backend /= "sqlite"
        /\ looked[p]
        /\ startStore[p].tableExists
        /\ "deleted_at" \notin startStore[p].columns
        /\ "deleted_at" \notin columns
        /\ writes[p].alter = 0

\* The record is deactivated or soft-deleted.
Retired(a) ==
    \/ ~a.is_active
    \/ ("deleted_at" \in DOMAIN a /\ a.deleted_at /= NULL)

\* C17 (soft-deleted or deactivated admin stays as is): a run that has done
\* its lookup on a store that held, when the run started, a deactivated or
\* soft-deleted record of the configured username has inserted nothing,
\* and that record still has its deleted_at, is_active, username, id,
\* password_hash and created_at.
C17_RetiredAdminStays ==
    \A p \in Procs :
        looked[p] =>
            \A a \in startStore[p].rows :
                (a.username = cfg[p].username /\ Retired(a)) =>
                    /\ writes[p].insert = 0
                    /\ \E r \in rows :
                          /\ r.id = a.id
                          /\ \A c \in (DOMAIN a) \cap
                                      {"deleted_at", "is_active", "username",
                                       "id", "password_hash", "created_at"} :
                                r[c] = a[c]

\* A run has matched a soft-deleted admin record, corrected its email and
\* completed; the record is still inactive and soft-deleted.
C17_Witness ==
    \E p \in Procs :
        /\ pc[p] = "Complete"
        /\ writes[p].update = 1
        /\ writes[p].insert = 0
        /\ \E a \in startStore[p].rows :
              /\ a.username = cfg[p].username
              /\ Retired(a)
              /\ \E r \in rows :
                    /\ r.id = a.id
                    /\ ~r.is_active
                    /\ r.deleted_at /= NULL
                    /\ r.email /= a.email

\* C18 (reconcile touches only the configured identity): while a run is
\* alone on the store, every record the store held at its start under
\* another username than the configured one is still there with every
\* column value it had; and when the run has completed on a store that held
\* no record of the configured username, it has inserted one record, the
\* only one of that name, next to the records that were there.
C18_OnlyConfiguredIdentity ==
    \A p \in Procs :
        /\ (pc[p] /= "NotStarted" /\ looked[p] /\ Alone(p)) =>
              \A a \in startStore[p].rows :
                  a.username /= cfg[p].username =>
                      \E r \in rows :
                          /\ r.id = a.id
                          /\ \A c \in DOMAIN a : r[c] = a[c]
        /\ (/\ pc[p] = "Complete"
            /\ Alone(p)
            /\ \A a \in startStore[p].rows : a.username /= cfg[p].username)
           => /\ writes[p].insert = 1
              /\ writes[p].update = 0
              /\ Cardinality(SelectUser(cfg[p].username)) = 1
              /\ Cardinality(rows) = Cardinality(startStore[p].rows) + 1

\* The store held the admin record of an earlier configuration; a run
\* configured with another username has completed alone and inserted its
\* record, and the earlier record has the email it had.
C18_Witness ==
    \E p \in Procs :
        /\ pc[p] = "Complete"
        /\ Alone(p)
        /\ cfg[p].username = "root"
        /\ writes[p].insert = 1
        /\ \E a \in startStore[p].rows :
              /\ a.username = "admin"
              /\ a.email /= cfg[p].email
              /\ \E r \in rows : r.id = a.id /\ r.email = a.email

====
